---------------------------- MODULE Spec2Model ----------------------------
(***************************************************************************)
(* A model of the custom-error crate: the builders of Highlight, Context,  *)
(* CustomError and CustomErrors and their Display implementations.         *)
(*                                                                         *)
(* Text is modelled as a sequence of characters, each character a string.  *)
(* The box drawing characters of the source are named by their code point  *)
(* ("U+2502" is the vertical bar of the gutter), a line break is "\n".     *)
(* An Option is a sequence of length 0 (None) or 1 (Some).                 *)
(***************************************************************************)
EXTENDS Naturals, Sequences, FiniteSets

VARIABLES
    hl,         \* the Highlight value being built        (context.rs:92)
    ctx,        \* the Context value being built          (context.rs:27)
    err,        \* the CustomError value being built      (error.rs:62)
    errs,       \* the CustomErrors collection            (errors.rs:28)
    out,        \* Some(text) once Display wrote the current value, else None
    ansi_term,  \* cfg!(feature = "ansi_term"), fixed by the build
    given       \* history: the arguments of the appending calls, in call order
                \* (in SetterSpec: the name and the argument of the last call)

vars == <<hl, ctx, err, errs, out, ansi_term, given>>

---------------------------------------------------------------------------
(* Bounds of the model and the inputs the operations are called with.      *)

MaxLines == 2
MaxHighlights == 2

None == <<>>
Some(v) == <<v>>
IsSome(o) == Len(o) = 1
Unwrap(o) == o[1]

\* The lines of a source file a Context quotes from.
SourceLines ==
    << <<"f", "n", " ", "m", "(", ")">>,
       <<"x", " ", "=", " ", "1">>,
       <<"}">>,
       <<"e", "n", "d">> >>

Min(a, b) == IF a < b THEN a ELSE b

LineLists == {SubSeq(SourceLines, 1, n) : n \in 0..Min(MaxLines, Len(SourceLines))}
LineTexts == {SourceLines[2]}
LineNumbers == {0, 1, 9, 99}
FileNames == {<<"a", ".", "r", "s">>}
NoteTexts == {<<"b", "a", "d">>}
Kinds == {"NotANumber", "CouldNotOpenFile"}
SuperKinds == {"Type1(NotANumber)", "Type1(CouldNotOpenFile)"}
TitleTexts == {<<"B", "a", "d">>}
MessageTexts == {<<"n", "o", "t", " ", "a", " ", "n", "u", "m", "b", "e", "r">>}
HelpTexts == {<<"u", "s", "e", " ", "1">>}
UrlTexts == {<<"d", ".", "r", "s", "/", "e">>}
\* The texts handed to the setters of SetterSpec, the path of the module and
\* the version of the crate the macro CustomError! is expanded in.
SetterTexts == {<<"o", "n", "e">>, <<"t", "w", "o">>}
ModulePaths == {<<"m", ":", ":", "p">>}
Versions == {<<"1", ".", "0">>}
LocationTexts == {<<"a", ".", "r", "s", ":", "3", ":", "7">>, <<"b", ".", "r", "s", ":", "1", ":", "1">>}
MaxContexts == 2
MaxErrors == 4

---------------------------------------------------------------------------
(* Characters and formatting primitives.                                   *)

ESC == "U+001B"
ArcDownRight == "U+256D"     \* opening corner of the file header
Horizontal == "U+2500"       \* header dash and underline character
Vertical == "U+2502"         \* gutter marker of a line row
HalfDown == "U+2577"         \* opening connector without a file
HalfUp == "U+2575"           \* closing connector
MiddleDot == "U+00B7"        \* gutter marker of an underline row

DigitChars == <<"0", "1", "2", "3", "4", "5", "6", "7", "8", "9">>

\* usize::to_string
RECURSIVE to_string(_)
to_string(n) ==
    IF n < 10 THEN <<DigitChars[n + 1]>>
    ELSE to_string(n \div 10) \o <<DigitChars[(n % 10) + 1]>>

\* str::repeat
repeat(ch, n) == [i \in 1..n |-> ch] \o <<>>

\* "{:pad$}" applied to a string: left aligned, filled with spaces, never cut.
FmtLeft(s, pad) == IF Len(s) >= pad THEN s ELSE s \o repeat(" ", pad - Len(s))

\* "{:>pad$}" applied to a string: right aligned, filled with spaces, never cut.
FmtRight(s, pad) == IF Len(s) >= pad THEN s ELSE repeat(" ", pad - Len(s)) \o s

\* ansi_term's Colour::paint(..).to_string(): prefix, text, reset.
Paint(code, s) == <<ESC, "[">> \o code \o <<"m">> \o s \o <<ESC, "[", "0", "m">>

red(input) == IF ansi_term THEN Paint(<<"3", "1">>, input) ELSE input
yellow(input) == IF ansi_term THEN Paint(<<"3", "3">>, input) ELSE input
blue(input) == IF ansi_term THEN Paint(<<"3", "4">>, input) ELSE input
green(input) == IF ansi_term THEN Paint(<<"3", "2">>, input) ELSE input
\* grey is used by context.rs:202 and follows the pattern of the four above.
grey(input) == IF ansi_term THEN Paint(<<"9", "0">>, input) ELSE input

Levels == {"Error", "Warning", "Info"}

in_colour(level, text) ==
    CASE level = "Error" -> red(text)
      [] level = "Warning" -> yellow(text)
      [] level = "Info" -> blue(text)

---------------------------------------------------------------------------
(* Highlight (context.rs:92-151).                                          *)

Highlight_new(line, column, length) ==
    [line |-> line, column |-> column, length |-> length,
     note |-> None, level |-> "Error"]

Highlight_note(self, note) == [self EXCEPT !.note = Some(note)]
Highlight_warning(self) == [self EXCEPT !.level = "Warning"]
Highlight_info(self) == [self EXCEPT !.level = "Info"]

\* From<(usize, usize, usize)> and From<(usize, usize)>
Highlight_from3(t) == Highlight_new(t[1], t[2], t[3])
Highlight_from2(t) == Highlight_new(0, t[1], t[2])

\* The highlights handed to Context::highlight and Context::highlights:
\* three on the first line (a plain one given as a triple, a warning with a
\* note, an info of length 0 given as a (column, length) pair), one on the
\* second line, and one whose line offset no Context of the model has.
HighlightInputs ==
    {Highlight_from3(<<0, 0, 1>>),
     Highlight_info(Highlight_from2(<<1, 0>>)),
     Highlight_new(1, 2, 3),
     Highlight_new(MaxLines, 0, 1)}
    \cup {Highlight_note(Highlight_warning(Highlight_new(0, 4, 3)), n) : n \in NoteTexts}

---------------------------------------------------------------------------
(* Context (context.rs:27-88).                                             *)

Context_line(line) ==
    [lines |-> <<line>>, linenumber |-> None, highlights |-> <<>>, file |-> None]

Context_lines(lines) ==
    [lines |-> lines, linenumber |-> None, highlights |-> <<>>, file |-> None]

Context_linenumber(self, linenumber) ==
    [self EXCEPT !.linenumber = Some(linenumber)]

\* Mutant: the new highlight is put in front of the earlier ones.
Mutant_Context_highlight(self, highlight) ==
    [self EXCEPT !.highlights = <<highlight>> \o @]

Context_highlight(self, highlight) ==
    [self EXCEPT !.highlights = Append(@, highlight)]

Context_highlights(self, highlights) ==
    [self EXCEPT !.highlights = @ \o highlights]

Context_file(self, file) == [self EXCEPT !.file = Some(file)]

unwrap_or(o, default) == IF IsSome(o) THEN Unwrap(o) ELSE default

\* (x as f64).log10().ceil() as usize: the least k with 10^k >= x, and 0 for
\* x = 0, whose logarithm is -inf and saturates to 0 in the cast.
RECURSIVE CeilLog10From(_, _, _)
CeilLog10From(x, k, p) == IF p >= x THEN k ELSE CeilLog10From(x, k + 1, p * 10)
CeilLog10(x) == IF x = 0 THEN 0 ELSE CeilLog10From(x, 0, 1)

linenumber_padding(self) ==
    CeilLog10(unwrap_or(self.linenumber, 1) + Len(self.lines))

\* Mutant: the location is shown as soon as there is a highlight, not only
\* when there is exactly one.
Mutant_Context_fmt_header(self, pad) ==
    IF IsSome(self.file)
    THEN (IF Len(self.highlights) >= 1
          THEN FmtLeft(<<>>, pad) \o <<" ">>
               \o blue(<<ArcDownRight, Horizontal, Horizontal>>)
               \o <<"[">> \o Unwrap(self.file)
               \o (IF IsSome(self.linenumber)
                   THEN <<":">>
                        \o to_string(Unwrap(self.linenumber) + self.highlights[1].line)
                        \o <<":">> \o to_string(self.highlights[1].column)
                   ELSE <<>>)
               \o <<"]", "\n">>
          ELSE FmtLeft(<<>>, pad) \o <<" ">>
               \o blue(<<ArcDownRight, Horizontal, Horizontal>>)
               \o <<"[">> \o Unwrap(self.file) \o <<"]", "\n">>)
         \o FmtLeft(<<>>, pad) \o <<" ">> \o blue(<<Vertical>>) \o <<"\n">>
    ELSE FmtLeft(<<>>, pad) \o <<" ">> \o blue(<<HalfDown>>) \o <<"\n">>

\* The first writes of Display for Context: the file header or the opening.
Context_fmt_header(self, pad) ==
    IF IsSome(self.file)
    THEN (IF Len(self.highlights) = 1
          THEN FmtLeft(<<>>, pad) \o <<" ">>
               \o blue(<<ArcDownRight, Horizontal, Horizontal>>)
               \o <<"[">> \o Unwrap(self.file)
               \o (IF IsSome(self.linenumber)
                   THEN <<":">>
                        \o to_string(Unwrap(self.linenumber) + self.highlights[1].line)
                        \o <<":">> \o to_string(self.highlights[1].column)
                   ELSE <<>>)
               \o <<"]", "\n">>
          ELSE FmtLeft(<<>>, pad) \o <<" ">>
               \o blue(<<ArcDownRight, Horizontal, Horizontal>>)
               \o <<"[">> \o Unwrap(self.file) \o <<"]", "\n">>)
         \o FmtLeft(<<>>, pad) \o <<" ">> \o blue(<<Vertical>>) \o <<"\n">>
    ELSE FmtLeft(<<>>, pad) \o <<" ">> \o blue(<<HalfDown>>) \o <<"\n">>

\* Mutant: column and length are taken for each other.
Mutant_Context_fmt_highlight(highlight, pad) ==
    FmtRight(<<>>, pad) \o <<" ">> \o blue(<<MiddleDot>>) \o <<" ">>
    \o repeat(" ", highlight.length)
    \o in_colour(highlight.level, repeat(Horizontal, highlight.column))
    \o in_colour(highlight.level,
                 IF IsSome(highlight.note)
                 THEN <<" ">> \o Unwrap(highlight.note) ELSE <<>>)
    \o <<"\n">>

\* One underline row.
Context_fmt_highlight(highlight, pad) ==
    FmtRight(<<>>, pad) \o <<" ">> \o blue(<<MiddleDot>>) \o <<" ">>
    \o repeat(" ", highlight.column)
    \o in_colour(highlight.level, repeat(Horizontal, highlight.length))
    \o in_colour(highlight.level,
                 IF IsSome(highlight.note)
                 THEN <<" ">> \o Unwrap(highlight.note) ELSE <<>>)
    \o <<"\n">>

\* Mutant: the test of the line offset is missing.
RECURSIVE Mutant_Context_fmt_highlights(_, _, _, _)
Mutant_Context_fmt_highlights(self, index, k, pad) ==
    IF k > Len(self.highlights) THEN <<>>
    ELSE Context_fmt_highlight(self.highlights[k], pad)
         \o Mutant_Context_fmt_highlights(self, index, k + 1, pad)

\* The inner loop: the underline rows of the highlights of line `index`,
\* from the k-th highlight on, in the order of self.highlights.
RECURSIVE Context_fmt_highlights(_, _, _, _)
Context_fmt_highlights(self, index, k, pad) ==
    IF k > Len(self.highlights) THEN <<>>
    ELSE (IF index = self.highlights[k].line
          THEN Context_fmt_highlight(self.highlights[k], pad) ELSE <<>>)
         \o Context_fmt_highlights(self, index, k + 1, pad)

\* Mutant: the lines are numbered from linenumber + 1.
Mutant_Context_fmt_line(self, index, linenumber, pad) ==
    FmtRight(grey(to_string(linenumber + index + 1)), pad)
    \o <<" ">> \o blue(<<Vertical>>) \o <<" ">> \o self.lines[index + 1] \o <<"\n">>

\* One numbered row.
Context_fmt_line(self, index, linenumber, pad) ==
    FmtRight(grey(to_string(linenumber + index)), pad)
    \o <<" ">> \o blue(<<Vertical>>) \o <<" ">> \o self.lines[index + 1] \o <<"\n">>

\* The outer loop, from line `index` (0 based) on.
RECURSIVE Context_fmt_lines(_, _, _, _)
Context_fmt_lines(self, index, linenumber, pad) ==
    IF index >= Len(self.lines) THEN <<>>
    ELSE Context_fmt_line(self, index, linenumber, pad)
         \o Context_fmt_highlights(self, index, 1, pad)
         \o Context_fmt_lines(self, index + 1, linenumber, pad)

\* impl Display for Context
Context_fmt(self) ==
    LET pad == linenumber_padding(self)
    IN  Context_fmt_header(self, pad)
        \o Context_fmt_lines(self, 0, unwrap_or(self.linenumber, 0), pad)
        \o FmtLeft(<<>>, pad) \o <<" ">> \o blue(<<HalfUp>>) \o <<"\n">>

---------------------------------------------------------------------------
(* CustomError (error.rs:9-329).                                           *)

\* impl Display for ErrorLevel
ErrorLevel_fmt(level) ==
    CASE level = "Error" -> red(<<"e", "r", "r", "o", "r">>)
      [] level = "Warning" -> yellow(<<"w", "a", "r", "n", "i", "n", "g">>)
      [] level = "Info" -> blue(<<"i", "n", "f", "o">>)

\* std::any::type_name::<T>() and the Debug form of a kind: T is the enum E
\* of Kinds, or the enum S of SuperKinds that wraps an E in its variant Type1.
type_name(kind) ==
    IF kind \in Kinds THEN <<"m", ":", ":", "E">> ELSE <<"m", ":", ":", "S">>
Debug(kind) ==
    CASE kind = "NotANumber" -> <<"N", "o", "t", "A", "N", "u", "m", "b", "e", "r">>
      [] kind = "CouldNotOpenFile" -> <<"C", "o", "u", "l", "d", "N", "o", "t", "O", "p", "e", "n", "F", "i", "l", "e">>
      [] kind = "Type1(NotANumber)" -> <<"T", "y", "p", "e", "1", "(", "N", "o", "t", "A", "N", "u", "m", "b", "e", "r", ")">>
      [] kind = "Type1(CouldNotOpenFile)" -> <<"T", "y", "p", "e", "1", "(", "C", "o", "u", "l", "d", "N", "o", "t", "O", "p", "e", "n", "F", "i", "l", "e", ")">>

\* The mappings handed to convert as `impl From<T> for O`: the wrapping of an
\* E in the variant Type1 of S, and the unwrapping that is its inverse.
From_E_for_S ==
    [t \in Kinds |-> IF t = "NotANumber" THEN "Type1(NotANumber)"
                     ELSE "Type1(CouldNotOpenFile)"]
From_S_for_E ==
    [s \in SuperKinds |-> IF s = "Type1(NotANumber)" THEN "NotANumber"
                          ELSE "CouldNotOpenFile"]

CustomError_new(kind) ==
    [kind |-> kind, level |-> "Error", title |-> None, message |-> None,
     help |-> None, url |-> None, context |-> <<>>, location |-> None]

\* Mutant: a new title is taken for a new diagnostic and drops the location.
Mutant_CustomError_title(self, title) ==
    [self EXCEPT !.title = Some(title), !.location = None]

CustomError_title(self, title) == [self EXCEPT !.title = Some(title)]
CustomError_message(self, message) == [self EXCEPT !.message = Some(message)]
CustomError_help(self, help) == [self EXCEPT !.help = Some(help)]
\* Mutant: a url that is already there is kept.
Mutant_CustomError_url(self, url) ==
    IF IsSome(self.url) THEN self ELSE [self EXCEPT !.url = Some(url)]

CustomError_url(self, url) == [self EXCEPT !.url = Some(url)]
\* Mutant: the new context is put in front of the earlier ones.
Mutant_CustomError_context(self, context) == [self EXCEPT !.context = <<context>> \o @]

CustomError_context(self, context) == [self EXCEPT !.context = Append(@, context)]
CustomError_multiple_context(self, context) == [self EXCEPT !.context = @ \o context]
CustomError_warning(self) == [self EXCEPT !.level = "Warning"]
\* Mutant: info() does not undo an earlier warning().
Mutant_CustomError_info(self) ==
    [self EXCEPT !.level = IF @ = "Warning" THEN "Warning" ELSE "Info"]

CustomError_info(self) == [self EXCEPT !.level = "Info"]
CustomError_location(self, location) == [self EXCEPT !.location = Some(location)]

\* Mutant: the converted diagnostic is built afresh from the kind and the
\* texts, which loses the severity and the location.
Mutant_CustomError_convert(self, into) ==
    [kind |-> into[self.kind], level |-> "Error", title |-> self.title,
     message |-> self.message, help |-> self.help, url |-> self.url,
     context |-> self.context, location |-> None]

\* convert::<O>(), with `into` the From<T> for O in scope.
CustomError_convert(self, into) ==
    [kind |-> into[self.kind], level |-> self.level, title |-> self.title,
     message |-> self.message, help |-> self.help, url |-> self.url,
     context |-> self.context, location |-> self.location]

CustomError_kind(self) == self.kind

\* str::split("::"): the segments of s from place i on, `cur` being the
\* segment read so far.
RECURSIVE SplitFrom(_, _, _)
SplitFrom(s, i, cur) ==
    IF i > Len(s) THEN <<cur>>
    ELSE IF i < Len(s) /\ s[i] = ":" /\ s[i + 1] = ":"
         THEN <<cur>> \o SplitFrom(s, i + 2, <<>>)
         ELSE SplitFrom(s, i + 1, Append(cur, s[i]))
split(s) == SplitFrom(s, 1, <<>>)

\* module_path.iter().skip(1).fold("", |acc, item| acc + item + "/"), from
\* the k-th segment on.
RECURSIVE PathOf(_, _)
PathOf(module_path, k) ==
    IF k > Len(module_path) THEN <<>>
    ELSE module_path[k] \o <<"/">> \o PathOf(module_path, k + 1)

CustomError_docs_link(self, module_path, version) ==
    LET mp == split(module_path)
        ty == split(type_name(self.kind))
    IN  [self EXCEPT !.url =
            Some(<<"h", "t", "t", "p", "s", ":", "/", "/", "d", "o", "c", "s", ".", "r", "s", "/">>
                 \o mp[1] \o <<"/">> \o version \o <<"/">> \o mp[1] \o <<"/">>
                 \o PathOf(mp, 2) \o <<"e", "n", "u", "m", ".">> \o ty[Len(ty)]
                 \o <<".", "h", "t", "m", "l", "#", "v", "a", "r", "i", "a", "n", "t", ".">>
                 \o Debug(self.kind))]

\* The macro CustomError!: `at` is file!():line!():column!() of the call,
\* module_path and version are module_path!() and CARGO_PKG_VERSION.
CustomError_macro(kind, at) == CustomError_location(CustomError_new(kind), at)
CustomError_macro_doc(kind, at, module_path, version) ==
    CustomError_docs_link(CustomError_location(CustomError_new(kind), at),
                          module_path, version)

is_error(self) == self.level = "Error"
is_warning(self) == self.level = "Warning"
is_info(self) == self.level = "Info"

\* The loop over self.context, from the k-th context on.
RECURSIVE CustomError_fmt_contexts(_, _)
CustomError_fmt_contexts(self, k) ==
    IF k > Len(self.context) THEN <<>>
    ELSE Context_fmt(self.context[k]) \o CustomError_fmt_contexts(self, k + 1)

\* Mutant: the message is written before the contexts.
Mutant_CustomError_fmt(self) ==
    (IF IsSome(self.title)
     THEN ErrorLevel_fmt(self.level) \o <<":", " ">> \o Unwrap(self.title)
          \o <<" ", "(">> \o type_name(self.kind) \o <<":", ":">> \o Debug(self.kind)
          \o <<")", "\n">>
     ELSE ErrorLevel_fmt(self.level) \o <<":", " ">>
          \o type_name(self.kind) \o <<":", ":">> \o Debug(self.kind) \o <<"\n">>)
    \o (IF IsSome(self.url)
        THEN blue(<<"u", "r", "l">>) \o <<":", " ">> \o blue(Unwrap(self.url)) \o <<"\n">>
        ELSE <<>>)
    \o (IF IsSome(self.location)
        THEN <<" ", " ">> \o blue(<<"-", "-", ">">>) \o <<" ", "g", "e", "n", "e", "r", "a", "t", "e", "d", " ", "a", "t", ":", " ">>
             \o Unwrap(self.location) \o <<"\n">>
        ELSE <<>>)
    \o (IF IsSome(self.message) THEN Unwrap(self.message) \o <<"\n">> ELSE <<>>)
    \o CustomError_fmt_contexts(self, 1)
    \o (IF IsSome(self.help)
        THEN <<" ", " ">> \o blue(<<"h", "e", "l", "p">>) \o <<":", " ">> \o Unwrap(self.help)
             \o <<"\n">>
        ELSE <<>>)

\* impl Display for CustomError
CustomError_fmt(self) ==
    (IF IsSome(self.title)
     THEN ErrorLevel_fmt(self.level) \o <<":", " ">> \o Unwrap(self.title)
          \o <<" ", "(">> \o type_name(self.kind) \o <<":", ":">> \o Debug(self.kind)
          \o <<")", "\n">>
     ELSE ErrorLevel_fmt(self.level) \o <<":", " ">>
          \o type_name(self.kind) \o <<":", ":">> \o Debug(self.kind) \o <<"\n">>)
    \o (IF IsSome(self.url)
        THEN blue(<<"u", "r", "l">>) \o <<":", " ">> \o blue(Unwrap(self.url)) \o <<"\n">>
        ELSE <<>>)
    \o (IF IsSome(self.location)
        THEN <<" ", " ">> \o blue(<<"-", "-", ">">>) \o <<" ", "g", "e", "n", "e", "r", "a", "t", "e", "d", " ", "a", "t", ":", " ">>
             \o Unwrap(self.location) \o <<"\n">>
        ELSE <<>>)
    \o CustomError_fmt_contexts(self, 1)
    \o (IF IsSome(self.message) THEN Unwrap(self.message) \o <<"\n">> ELSE <<>>)
    \o (IF IsSome(self.help)
        THEN <<" ", " ">> \o blue(<<"h", "e", "l", "p">>) \o <<":", " ">> \o Unwrap(self.help)
             \o <<"\n">>
        ELSE <<>>)

\* The contexts handed to CustomError::context and multiple_context.
ContextInputs ==
    {Context_highlight(Context_linenumber(Context_line(SourceLines[2]), 5),
                       Highlight_from2(<<4, 1>>)),
     Context_lines(SubSeq(SourceLines, 1, 2))}

---------------------------------------------------------------------------
(* CustomErrors (errors.rs:27-175).                                        *)

CustomErrors_new == <<>>
CustomErrors_is_empty(self) == self = <<>>
\* Mutant: only the first diagnostic is looked at.
Mutant_CustomErrors_any_errors(self) == self # <<>> /\ is_error(self[1])

CustomErrors_any_errors(self) == \E i \in 1..Len(self) : is_error(self[i])
CustomErrors_any_errors_or_warnings(self) ==
    \E i \in 1..Len(self) : is_error(self[i]) \/ is_warning(self[i])
\* Mutant: the new diagnostic is put in front of the earlier ones.
Mutant_CustomErrors_push(self, error) == <<error>> \o self

CustomErrors_push(self, error) == Append(self, error)
CustomErrors_add_assign(self, rhs) == Append(self, rhs)
CustomErrors_extend(self, iter) == self \o iter

\* self.errors.into_iter().map(|e| e.convert()).collect()
CustomErrors_convert(self, into) ==
    [i \in 1..Len(self) |-> CustomError_convert(self[i], into)] \o <<>>

\* iter(): the references to the diagnostics, in order.
CustomErrors_iter(self) == self

\* The counters of Display for CustomErrors after its loop.
CountOf(self, level) == Cardinality({i \in 1..Len(self) : self[i].level = level})

\* The loop of Display for CustomErrors, from the k-th error on.
RECURSIVE CustomErrors_fmt_errors(_, _)
CustomErrors_fmt_errors(self, k) ==
    IF k > Len(self) THEN <<>>
    ELSE CustomError_fmt(self[k]) \o <<"\n">> \o CustomErrors_fmt_errors(self, k + 1)

\* Mutant: the warnings are counted as errors.
Mutant_CustomErrors_fmt_summary(errors, warnings, infos) ==
    IF errors + warnings + infos = 0
    THEN <<"\n">> \o green(<<"n", "o", " ", "m", "e", "s", "s", "a", "g", "e", "s", "!">>) \o <<"\n">>
    ELSE <<"\n">> \o <<"e", "n", "c", "o", "u", "n", "t", "e", "r", "e", "d", ":", " ">>
         \o (IF errors + warnings > 0
             THEN to_string(errors + warnings) \o <<" ">> \o red(<<"e", "r", "r", "o", "r", "s">>) ELSE <<>>)
         \o (IF infos > 0
             THEN to_string(infos) \o <<" ">> \o blue(<<"i", "n", "f", "o", " ", "m", "e", "s", "s", "a", "g", "e", "s">>) ELSE <<>>)

\* Mutant: a collection of info messages only counts as holding no message.
Mutant_CustomErrors_fmt_summary_notice(errors, warnings, infos) ==
    IF errors + warnings = 0
    THEN <<"\n">> \o green(<<"n", "o", " ", "m", "e", "s", "s", "a", "g", "e", "s", "!">>) \o <<"\n">>
    ELSE <<"\n">> \o <<"e", "n", "c", "o", "u", "n", "t", "e", "r", "e", "d", ":", " ">>
         \o (IF errors > 0
             THEN to_string(errors) \o <<" ">> \o red(<<"e", "r", "r", "o", "r", "s">>) ELSE <<>>)
         \o (IF warnings > 0
             THEN to_string(warnings) \o <<" ">> \o yellow(<<"w", "a", "r", "n", "i", "n", "g", "s">>) ELSE <<>>)
         \o (IF infos > 0
             THEN to_string(infos) \o <<" ">> \o blue(<<"i", "n", "f", "o", " ", "m", "e", "s", "s", "a", "g", "e", "s">>) ELSE <<>>)

\* The summary written after the loop.
CustomErrors_fmt_summary(errors, warnings, infos) ==
    IF errors + warnings + infos = 0
    THEN <<"\n">> \o green(<<"n", "o", " ", "m", "e", "s", "s", "a", "g", "e", "s", "!">>) \o <<"\n">>
    ELSE <<"\n">> \o <<"e", "n", "c", "o", "u", "n", "t", "e", "r", "e", "d", ":", " ">>
         \o (IF errors > 0
             THEN to_string(errors) \o <<" ">> \o red(<<"e", "r", "r", "o", "r", "s">>) ELSE <<>>)
         \o (IF warnings > 0
             THEN to_string(warnings) \o <<" ">> \o yellow(<<"w", "a", "r", "n", "i", "n", "g", "s">>) ELSE <<>>)
         \o (IF infos > 0
             THEN to_string(infos) \o <<" ">> \o blue(<<"i", "n", "f", "o", " ", "m", "e", "s", "s", "a", "g", "e", "s">>) ELSE <<>>)

\* impl Display for CustomErrors
CustomErrors_fmt(self) ==
    CustomErrors_fmt_errors(self, 1)
    \o CustomErrors_fmt_summary(CountOf(self, "Error"), CountOf(self, "Warning"),
                                CountOf(self, "Info"))

\* The diagnostics handed to push, += and extend.
ErrorInputs ==
    {CustomError_context(
         CustomError_location(
           CustomError_url(
             CustomError_help(CustomError_message(CustomError_new("NotANumber"), m),
                              <<"u", "s", "e", " ", "1">>),
             <<"d", ".", "r", "s", "/", "e">>),
           <<"a", ".", "r", "s", ":", "3", ":", "7">>),
         Context_linenumber(Context_line(SourceLines[2]), 5)) : m \in MessageTexts}
    \cup {CustomError_warning(CustomError_title(CustomError_new("CouldNotOpenFile"), t)) :
            t \in TitleTexts}
    \cup {CustomError_info(CustomError_new("NotANumber")),
          CustomError_new("CouldNotOpenFile")}

---------------------------------------------------------------------------
(* The Context under construction: Spec.                                   *)

Init ==
    /\ ctx \in {Context_line(l) : l \in LineTexts}
               \cup {Context_lines(ls) : ls \in LineLists}
    /\ err = CustomError_new("NotANumber")
    /\ errs = CustomErrors_new
    /\ out = None
    /\ ansi_term \in BOOLEAN
    /\ hl = Highlight_new(0, 0, 0)
    /\ given = <<>>

CallLinenumber ==
    /\ \E n \in LineNumbers : ctx' = Context_linenumber(ctx, n)
    /\ out' = None
    /\ UNCHANGED <<hl, err, errs, ansi_term, given>>

CallHighlight ==
    /\ Len(ctx.highlights) < MaxHighlights
    /\ \E h \in HighlightInputs :
          /\ ctx' = Context_highlight(ctx, h)
          /\ given' = Append(given, h)
    /\ out' = None
    /\ UNCHANGED <<hl, err, errs, ansi_term>>

CallHighlights ==
    /\ Len(ctx.highlights) + 2 <= MaxHighlights
    /\ \E h1, h2 \in HighlightInputs :
          /\ ctx' = Context_highlights(ctx, <<h1, h2>>)
          /\ given' = given \o <<h1, h2>>
    /\ out' = None
    /\ UNCHANGED <<hl, err, errs, ansi_term>>

CallFile ==
    /\ \E f \in FileNames : ctx' = Context_file(ctx, f)
    /\ out' = None
    /\ UNCHANGED <<hl, err, errs, ansi_term, given>>

DisplayContext ==
    /\ out' = Some(Context_fmt(ctx))
    /\ UNCHANGED <<hl, ctx, err, errs, ansi_term, given>>

Next ==
    \/ CallLinenumber
    \/ CallHighlight
    \/ CallHighlights
    \/ CallFile
    \/ DisplayContext

Spec == Init /\ [][Next]_vars

---------------------------------------------------------------------------
(* The CustomError under construction: ErrorSpec.                          *)

\* A CustomError starts from new() or from the macro CustomError!.
ErrorInit ==
    /\ ctx = Context_lines(<<>>)
    /\ err \in {CustomError_new(k) : k \in Kinds}
               \cup {CustomError_macro(k, l) : k \in Kinds, l \in LocationTexts}
    /\ errs = CustomErrors_new
    /\ out = None
    /\ ansi_term \in BOOLEAN
    /\ hl = Highlight_new(0, 0, 0)
    /\ given = <<>>

CallTitle ==
    /\ \E t \in TitleTexts : err' = CustomError_title(err, t)
    /\ out' = None
    /\ UNCHANGED <<hl, ctx, errs, ansi_term, given>>

CallMessage ==
    /\ \E m \in MessageTexts : err' = CustomError_message(err, m)
    /\ out' = None
    /\ UNCHANGED <<hl, ctx, errs, ansi_term, given>>

CallHelp ==
    /\ \E h \in HelpTexts : err' = CustomError_help(err, h)
    /\ out' = None
    /\ UNCHANGED <<hl, ctx, errs, ansi_term, given>>

CallUrl ==
    /\ \E u \in UrlTexts : err' = CustomError_url(err, u)
    /\ out' = None
    /\ UNCHANGED <<hl, ctx, errs, ansi_term, given>>

CallLocation ==
    /\ \E l \in LocationTexts : err' = CustomError_location(err, l)
    /\ out' = None
    /\ UNCHANGED <<hl, ctx, errs, ansi_term, given>>

CallWarning ==
    /\ err' = CustomError_warning(err)
    /\ out' = None
    /\ UNCHANGED <<hl, ctx, errs, ansi_term, given>>

CallInfo ==
    /\ err' = CustomError_info(err)
    /\ out' = None
    /\ UNCHANGED <<hl, ctx, errs, ansi_term, given>>

CallContext ==
    /\ Len(err.context) < MaxContexts
    /\ \E c \in ContextInputs :
          /\ err' = CustomError_context(err, c)
          /\ given' = Append(given, c)
    /\ out' = None
    /\ UNCHANGED <<hl, ctx, errs, ansi_term>>

\* multiple_context with an iterator of zero, one or two contexts.
CallMultipleContext ==
    /\ \E cs \in {<<>>} \cup {<<c>> : c \in ContextInputs}
                 \cup {<<c1, c2>> : c1 \in ContextInputs, c2 \in ContextInputs} :
          /\ Len(err.context) + Len(cs) <= MaxContexts
          /\ err' = CustomError_multiple_context(err, cs)
          /\ given' = given \o cs
    /\ out' = None
    /\ UNCHANGED <<hl, ctx, errs, ansi_term>>

\* convert() with whichever of the two From impls applies to the kind.
CallConvert ==
    /\ \E into \in {From_E_for_S, From_S_for_E} :
          /\ err.kind \in DOMAIN into
          /\ err' = CustomError_convert(err, into)
    /\ out' = None
    /\ UNCHANGED <<hl, ctx, errs, ansi_term, given>>

DisplayError ==
    /\ out' = Some(CustomError_fmt(err))
    /\ UNCHANGED <<hl, ctx, err, errs, ansi_term, given>>

ErrorNext ==
    \/ CallTitle
    \/ CallMessage
    \/ CallHelp
    \/ CallUrl
    \/ CallLocation
    \/ CallWarning
    \/ CallInfo
    \/ CallContext
    \/ CallMultipleContext
    \/ CallConvert
    \/ DisplayError

ErrorSpec == ErrorInit /\ [][ErrorNext]_vars

---------------------------------------------------------------------------
(* The CustomErrors collection: ErrorsSpec.                                *)

ErrorsInit ==
    /\ ctx = Context_lines(<<>>)
    /\ err = CustomError_new("NotANumber")
    /\ errs = CustomErrors_new
    /\ out = None
    /\ ansi_term \in BOOLEAN
    /\ hl = Highlight_new(0, 0, 0)
    /\ given = <<>>

\* The collection is a CustomErrors<E>: convert() was not called, or was
\* called back.  The diagnostics of ErrorInputs are CustomError<E>.
OfKinds(self) == \A i \in 1..Len(self) : self[i].kind \in Kinds

CallPush ==
    /\ OfKinds(errs)
    /\ Len(errs) < MaxErrors
    /\ \E e \in ErrorInputs :
          /\ errs' = CustomErrors_push(errs, e)
          /\ given' = Append(given, e)
    /\ out' = None
    /\ UNCHANGED <<hl, ctx, err, ansi_term>>

CallAddAssign ==
    /\ OfKinds(errs)
    /\ Len(errs) < MaxErrors
    /\ \E e \in ErrorInputs :
          /\ errs' = CustomErrors_add_assign(errs, e)
          /\ given' = Append(given, e)
    /\ out' = None
    /\ UNCHANGED <<hl, ctx, err, ansi_term>>

\* extend with an iterator of zero, one or two diagnostics.
CallExtend ==
    /\ OfKinds(errs)
    /\ \E iter \in {<<>>} \cup {<<e>> : e \in ErrorInputs}
                   \cup {<<e1, e2>> : e1 \in ErrorInputs, e2 \in ErrorInputs} :
          /\ Len(errs) + Len(iter) <= MaxErrors
          /\ errs' = CustomErrors_extend(errs, iter)
          /\ given' = given \o iter
    /\ out' = None
    /\ UNCHANGED <<hl, ctx, err, ansi_term>>

\* convert() with whichever of the two From impls applies to every kind.
CallConvertErrors ==
    /\ \E into \in {From_E_for_S, From_S_for_E} :
          /\ \A i \in 1..Len(errs) : errs[i].kind \in DOMAIN into
          /\ errs' = CustomErrors_convert(errs, into)
    /\ out' = None
    /\ UNCHANGED <<hl, ctx, err, ansi_term, given>>

DisplayErrors ==
    /\ out' = Some(CustomErrors_fmt(errs))
    /\ UNCHANGED <<hl, ctx, err, errs, ansi_term, given>>

ErrorsNext ==
    \/ CallPush
    \/ CallAddAssign
    \/ CallExtend
    \/ CallConvertErrors
    \/ DisplayErrors

ErrorsSpec == ErrorsInit /\ [][ErrorsNext]_vars

---------------------------------------------------------------------------
(* Reading a rendered text back: used by the properties below.             *)

\* Character i of s belongs to a colour code: an ESC at most four places
\* before it (the codes written here are ESC [ d d m) with no "m" between.
InCode(s, i) ==
    \E j \in {j \in 1..i : j + 4 >= i} :
        s[j] = ESC /\ \A k \in j..(i - 1) : s[k] # "m"

\* The text without its colour codes.
Strip(s) ==
    IF \A i \in 1..Len(s) : s[i] # ESC THEN s
    ELSE LET tagged == [i \in 1..Len(s) |-> <<s[i], InCode(s, i)>>]
             kept == SelectSeq(tagged, LAMBDA p : ~p[2])
         IN  [i \in 1..Len(kept) |-> kept[i][1]] \o <<>>

\* The rows of a text: each run of characters ended by a line break, and the
\* unfinished last row when the text does not end with a line break.
SplitRows(s) ==
    LET ends == {i \in 1..Len(s) : s[i] = "\n"}
                \cup (IF s # <<>> /\ s[Len(s)] # "\n" THEN {Len(s) + 1} ELSE {})
        EndOf(k) == CHOOSE e \in ends : Cardinality({j \in ends : j < e}) = k - 1
        StartOf(k) == IF k = 1 THEN 1 ELSE EndOf(k - 1) + 1
    IN  [k \in 1..Cardinality(ends) |-> SubSeq(s, StartOf(k), EndOf(k) - 1)] \o <<>>

Rows(s) == SplitRows(Strip(s))

Markers == {ArcDownRight, Vertical, HalfDown, HalfUp, MiddleDot}

\* The place of the gutter marker of a row: its first marker character.
MarkerAt(row) ==
    LET S == {i \in 1..Len(row) : row[i] \in Markers}
    IN  IF S = {} THEN 0 ELSE CHOOSE i \in S : \A j \in S : i <= j

HasGutter(row) == MarkerAt(row) >= 2 /\ row[MarkerAt(row) - 1] = " "
RowMarker(row) == row[MarkerAt(row)]
GutterCell(row) == SubSeq(row, 1, MarkerAt(row) - 2)
\* What follows the marker.
RowRest(row) == SubSeq(row, MarkerAt(row) + 1, Len(row))

IsBlank(cell) == \A i \in 1..Len(cell) : cell[i] = " "
IsDigit(ch) == \E d \in 1..10 : DigitChars[d] = ch
DigitValue(ch) == (CHOOSE d \in 1..10 : DigitChars[d] = ch) - 1

\* A numbered cell: spaces, then at least one digit, and nothing else.
IsNumbered(cell) ==
    \E k \in 0..(Len(cell) - 1) :
        /\ \A i \in 1..k : cell[i] = " "
        /\ \A i \in (k + 1)..Len(cell) : IsDigit(cell[i])

\* The number a numbered cell shows.
RECURSIVE ParseNat(_, _, _)
ParseNat(cell, i, acc) ==
    IF i > Len(cell) THEN acc
    ELSE ParseNat(cell, i + 1, IF cell[i] = " " THEN acc ELSE acc * 10 + DigitValue(cell[i]))
GutterValue(row) == ParseNat(GutterCell(row), 1, 0)

IsLineRow(row) ==
    HasGutter(row) /\ RowMarker(row) = Vertical /\ IsNumbered(GutterCell(row))
IsUnderlineRow(row) == HasGutter(row) /\ RowMarker(row) = MiddleDot

\* The places, in order, of the line rows among `rows`, from place i on.
RECURSIVE LineRowPlacesFrom(_, _)
LineRowPlacesFrom(rows, i) ==
    IF i > Len(rows) THEN <<>>
    ELSE (IF IsLineRow(rows[i]) THEN <<i>> ELSE <<>>) \o LineRowPlacesFrom(rows, i + 1)

LineRowPlaces(rows) == LineRowPlacesFrom(rows, 1)

---------------------------------------------------------------------------
(* C2: with linenumber = L and n lines, the numbered gutter cells of the   *)
(* line rows show exactly L, L+1, ..., L+n-1, one per line, in the order   *)
(* of the lines (the row of the i-th line carries the i-th line's text).   *)
C2_GutterValues ==
    (IsSome(out) /\ IsSome(ctx.linenumber)) =>
        LET rows == Rows(Unwrap(out))
            places == LineRowPlaces(rows)
        IN  /\ Len(places) = Len(ctx.lines)
            /\ \A i \in 1..Len(places) :
                  /\ GutterValue(rows[places[i]]) = Unwrap(ctx.linenumber) + i - 1
                  /\ RowRest(rows[places[i]]) = <<" ">> \o ctx.lines[i]

\* A two digit number follows a one digit number: lines 9 and 10.
C2_Witness ==
    /\ IsSome(out)
    /\ ctx.linenumber = Some(9)
    /\ Len(ctx.lines) = 2
    /\ ctx.highlights # <<>>

---------------------------------------------------------------------------
(* C3: the width of the gutter.                                            *)

\* ceil(log10(m + 1)), at least 1: the number of decimal digits of m.
RECURSIVE DecimalWidth(_)
DecimalWidth(m) == IF m < 10 THEN 1 ELSE 1 + DecimalWidth(m \div 10)

\* The largest line number a render of c shows (0 when it shows none).
LargestShown(c) ==
    IF c.lines = <<>> THEN 0 ELSE unwrap_or(c.linenumber, 0) + Len(c.lines) - 1

(* C3: the gutter width is ceil(log10(m + 1)) for the largest line number  *)
(* m shown, never less than 1, and every gutter cell of the render has     *)
(* exactly this width, also with linenumber 0, with no linenumber and with *)
(* no lines. linenumber_padding has no minimum of 1, so this fails.        *)
C3_GutterWidth ==
    IsSome(out) =>
        LET rows == Rows(Unwrap(out))
        IN  \A r \in 1..Len(rows) :
                /\ HasGutter(rows[r])
                /\ Len(GutterCell(rows[r])) = DecimalWidth(LargestShown(ctx))

---------------------------------------------------------------------------
(* C4 and C5: the underline rows.                                          *)

\* What an underline row of highlight h shows after its gutter marker.
UnderlineRest(h) ==
    <<" ">> \o repeat(" ", h.column) \o repeat(Horizontal, h.length)
    \o (IF IsSome(h.note) THEN <<" ">> \o Unwrap(h.note) ELSE <<>>)

IsUnderlineOf(row, h) ==
    /\ IsUnderlineRow(row)
    /\ IsBlank(GutterCell(row))
    /\ RowRest(row) = UnderlineRest(h)

Matched(c) == {j \in 1..Len(c.highlights) : c.highlights[j].line < Len(c.lines)}

\* How many highlights attached before the j-th have its line offset.
EarlierOnLine(c, j) ==
    Cardinality({k \in 1..(j - 1) : c.highlights[k].line = c.highlights[j].line})

UnderlineCount(rows) == Cardinality({r \in 1..Len(rows) : IsUnderlineRow(rows[r])})

(* C4 as stated: every highlight with line offset i < len(lines), column c *)
(* and length k has exactly one underline row, the row right after the row *)
(* of line i: blank gutter cell, marker, c spaces, k underline characters, *)
(* then the note. Fails for the second highlight of a line.                *)
C4_ImmediatelyAfterLine ==
    IsSome(out) =>
        LET rows == Rows(Unwrap(out))
            places == LineRowPlaces(rows)
        IN  /\ UnderlineCount(rows) = Cardinality(Matched(ctx))
            /\ \A j \in Matched(ctx) :
                  LET at == places[ctx.highlights[j].line + 1] + 1
                  IN  at <= Len(rows) /\ IsUnderlineOf(rows[at], ctx.highlights[j])

(* C4 amended: every highlight with line offset i < len(lines), column c   *)
(* and length k has exactly one underline row, below the row of line i and *)
(* separated from it only by the underline rows of the highlights attached *)
(* earlier with the same line offset: blank gutter cell, marker, c spaces, *)
(* k underline characters, then the note; c and k are not checked against  *)
(* the length of the line.                                                 *)
C4_UnderlineRow ==
    IsSome(out) =>
        LET rows == Rows(Unwrap(out))
            places == LineRowPlaces(rows)
        IN  /\ UnderlineCount(rows) = Cardinality(Matched(ctx))
            /\ \A j \in Matched(ctx) :
                  LET at == places[ctx.highlights[j].line + 1] + 1 + EarlierOnLine(ctx, j)
                  IN  at <= Len(rows) /\ IsUnderlineOf(rows[at], ctx.highlights[j])

\* A highlight with a note that reaches past the end of its one character line.
C4_Witness ==
    /\ IsSome(out)
    /\ \E j \in Matched(ctx) :
          /\ IsSome(ctx.highlights[j].note)
          /\ ctx.highlights[j].column + ctx.highlights[j].length
                > Len(ctx.lines[ctx.highlights[j].line + 1])

(* C5: the highlights given to highlight/highlights with the same line     *)
(* offset each have their own underline row between the row of that line   *)
(* and the row of the next line (or the closing row), and these rows are   *)
(* in the order in which the highlights were given.                        *)
C5_SameLineOrder ==
    IsSome(out) =>
        LET rows == Rows(Unwrap(out))
            places == LineRowPlaces(rows)
        IN  /\ Len(places) = Len(ctx.lines)
            /\ \A i \in 1..Len(places) :
                  LET onLine == SelectSeq(given, LAMBDA h : h.line = i - 1)
                      next == IF i < Len(places) THEN places[i + 1] ELSE Len(rows)
                  IN  /\ next - places[i] - 1 = Len(onLine)
                      /\ \A k \in 1..Len(onLine) :
                            IsUnderlineOf(rows[places[i] + k], onLine[k])

\* Two highlights on the first line, the later one left of the earlier one
\* and of another severity.
C5_Witness ==
    /\ IsSome(out)
    /\ ctx.lines # <<>>
    /\ \E j, k \in 1..Len(given) :
          /\ j < k
          /\ given[j].line = 0 /\ given[k].line = 0
          /\ given[k].column < given[j].column
          /\ given[k].level # given[j].level

---------------------------------------------------------------------------
(* C6: the shape of a block without file and linenumber.                   *)

IsConnector(row, marker) ==
    /\ HasGutter(row)
    /\ IsBlank(GutterCell(row))
    /\ RowMarker(row) = marker
    /\ RowRest(row) = <<>>

(* C6: with no file and no linenumber the render is one opening row, then  *)
(* len(lines) + (number of highlights whose line offset is an index into   *)
(* lines) rows, then one closing row; a highlight whose line offset        *)
(* matches no line adds no row, and with no lines only the opening and the *)
(* closing row are left.                                                   *)
C6_BlockShape ==
    (IsSome(out) /\ ~IsSome(ctx.file) /\ ~IsSome(ctx.linenumber)) =>
        LET rows == Rows(Unwrap(out))
            n == Len(rows)
        IN  /\ n = Len(ctx.lines) + Cardinality(Matched(ctx)) + 2
            /\ IsConnector(rows[1], HalfDown)
            /\ IsConnector(rows[n], HalfUp)
            /\ \A r \in 2..(n - 1) : IsLineRow(rows[r]) \/ IsUnderlineRow(rows[r])
            /\ Len(LineRowPlaces(rows)) = Len(ctx.lines)

\* A highlight whose line offset matches no line, next to one that does.
C6_Witness ==
    /\ IsSome(out) /\ ~IsSome(ctx.file) /\ ~IsSome(ctx.linenumber)
    /\ Matched(ctx) # {}
    /\ \E j \in 1..Len(ctx.highlights) : j \notin Matched(ctx)

---------------------------------------------------------------------------
(* C7: the file header.                                                    *)

HeaderText(c) ==
    <<ArcDownRight, Horizontal, Horizontal, "[">> \o Unwrap(c.file)
    \o (IF IsSome(c.linenumber) /\ Len(c.highlights) = 1
        THEN <<":">> \o to_string(Unwrap(c.linenumber) + c.highlights[1].line)
             \o <<":">> \o to_string(c.highlights[1].column)
        ELSE <<>>)
    \o <<"]">>

---------------------------------------------------------------------------
(* C1: the rows of a rendered CustomError.                                 *)

StartsWith(row, prefix) ==
    Len(row) >= Len(prefix) /\ SubSeq(row, 1, Len(prefix)) = prefix
After(row, prefix) == SubSeq(row, Len(prefix) + 1, Len(row))

LevelLabel(level) ==
    CASE level = "Error" -> <<"e", "r", "r", "o", "r">>
      [] level = "Warning" -> <<"w", "a", "r", "n", "i", "n", "g">>
      [] level = "Info" -> <<"i", "n", "f", "o">>

UrlPrefix == <<"u", "r", "l", ":", " ">>
LocationPrefix == <<" ", " ", "-", "-", ">", " ", "g", "e", "n", "e", "r", "a", "t", "e", "d", " ", "a", "t", ":", " ">>
HelpPrefix == <<" ", " ", "h", "e", "l", "p", ":", " ">>

\* What a row of a rendered CustomError is, read from the row alone.
RowKind(row) ==
    IF HasGutter(row) THEN "context"
    ELSE IF StartsWith(row, UrlPrefix) THEN "url"
    ELSE IF StartsWith(row, LocationPrefix) THEN "location"
    ELSE IF StartsWith(row, HelpPrefix) THEN "help"
    ELSE IF \E l \in Levels : StartsWith(row, LevelLabel(l) \o <<":", " ">>) THEN "header"
    ELSE "message"

\* The rows of the renders of the contexts cs, one after the other.
RECURSIVE ContextRows(_, _)
ContextRows(cs, k) ==
    IF k > Len(cs) THEN <<>> ELSE Rows(Context_fmt(cs[k])) \o ContextRows(cs, k + 1)

Opt(o, kind) == IF IsSome(o) THEN <<kind>> ELSE <<>>

(* C1: a rendered CustomError is, in this order, the header row, the url   *)
(* row, the location row, the full render of every context in the order    *)
(* the contexts were given, the message row and the help row; each         *)
(* optional row is there exactly when its field is set, so that with no    *)
(* field set and no context the render is the header row alone.            *)
C1_RenderOrder ==
    IsSome(out) =>
        LET rows == Rows(Unwrap(out))
            crows == ContextRows(given, 1)
            first == 1 + Len(err.url) + Len(err.location)
        IN  /\ [i \in 1..Len(rows) |-> RowKind(rows[i])]
                 = <<"header">> \o Opt(err.url, "url") \o Opt(err.location, "location")
                   \o [i \in 1..Len(crows) |-> "context"]
                   \o Opt(err.message, "message") \o Opt(err.help, "help")
            /\ SubSeq(rows, first + 1, first + Len(crows)) = crows
            /\ IsSome(err.title) =>
                  StartsWith(After(rows[1], LevelLabel(err.level) \o <<":", " ">>),
                             Unwrap(err.title))
            /\ IsSome(err.url) => After(rows[2], UrlPrefix) = Unwrap(err.url)
            /\ IsSome(err.location) =>
                  After(rows[first], LocationPrefix) = Unwrap(err.location)
            /\ IsSome(err.message) =>
                  rows[first + Len(crows) + 1] = Unwrap(err.message)
            /\ IsSome(err.help) => After(rows[Len(rows)], HelpPrefix) = Unwrap(err.help)

\* Every optional field set and two different contexts attached.
C1_Witness ==
    /\ IsSome(out)
    /\ IsSome(err.title) /\ IsSome(err.url) /\ IsSome(err.location)
    /\ IsSome(err.message) /\ IsSome(err.help)
    /\ Len(err.context) = 2 /\ err.context[1] # err.context[2]

---------------------------------------------------------------------------
(* C8: the queries of a CustomErrors after push, += and extend.            *)

(* C8: is_empty() is true iff no diagnostic was added, any_errors() iff an *)
(* added diagnostic has Error severity, any_errors_or_warnings() iff an    *)
(* added diagnostic has Error or Warning severity.                         *)
C8_Queries ==
    /\ CustomErrors_is_empty(errs) <=> given = <<>>
    /\ CustomErrors_any_errors(errs) <=> \E i \in 1..Len(given) : given[i].level = "Error"
    /\ CustomErrors_any_errors_or_warnings(errs)
         <=> \E i \in 1..Len(given) : given[i].level \in {"Error", "Warning"}

\* Only a warning and an info were added.
C8_Witness ==
    /\ Len(given) >= 2
    /\ \E i \in 1..Len(given) : given[i].level = "Warning"
    /\ \E i \in 1..Len(given) : given[i].level = "Info"
    /\ \A i \in 1..Len(given) : given[i].level # "Error"

---------------------------------------------------------------------------
(* C9 and C10: the summary of a rendered CustomErrors.                     *)

SummaryPrefix == <<"e", "n", "c", "o", "u", "n", "t", "e", "r", "e", "d", ":", " ">>

SummaryLabel(level) ==
    CASE level = "Error" -> <<"e", "r", "r", "o", "r", "s">>
      [] level = "Warning" -> <<"w", "a", "r", "n", "i", "n", "g", "s">>
      [] level = "Info" -> <<"i", "n", "f", "o", " ", "m", "e", "s", "s", "a", "g", "e", "s">>

\* The summary row: the last row of the render.
SummaryRow(rows) == rows[Len(rows)]

\* The places where a number starts in a row.
NumberStarts(row) ==
    {i \in 1..Len(row) : IsDigit(row[i]) /\ (i = 1 \/ ~IsDigit(row[i - 1]))}

\* The k-th entry of the summary: from its number up to the next number.
Entry(row, k) ==
    LET starts == NumberStarts(row)
        StartOf(j) == CHOOSE b \in starts : Cardinality({a \in starts : a < b}) = j - 1
    IN  SubSeq(row, StartOf(k),
               IF k < Cardinality(starts) THEN StartOf(k + 1) - 1 ELSE Len(row))

\* The digits an entry starts with, and what follows them.
EntryDigits(entry) ==
    SubSeq(entry, 1, CHOOSE n \in 1..Len(entry) :
                        /\ \A i \in 1..n : IsDigit(entry[i])
                        /\ n = Len(entry) \/ ~IsDigit(entry[n + 1]))
EntryCount(entry) == ParseNat(EntryDigits(entry), 1, 0)
EntryText(entry) == SubSeq(entry, Len(EntryDigits(entry)) + 1, Len(entry))

\* The severities that occur in a collection, in the order of the summary.
Present(self) ==
    SelectSeq(<<"Error", "Warning", "Info">>,
              LAMBDA l : \E i \in 1..Len(self) : self[i].level = l)
Occurrences(self, level) == Cardinality({i \in 1..Len(self) : self[i].level = level})

RECURSIVE SumOfCounts(_, _)
SumOfCounts(row, k) ==
    IF k = 0 THEN 0 ELSE EntryCount(Entry(row, k)) + SumOfCounts(row, k - 1)

(* C9: the render of a collection that holds a diagnostic ends with a      *)
(* summary that lists, in the order Error, Warning, Info, one count for    *)
(* each severity that occurs and none for the others; each count is the    *)
(* number of diagnostics of that severity, so the counts add up to the     *)
(* size of the collection.                                                 *)
C9_SummaryCounts ==
    (IsSome(out) /\ errs # <<>>) =>
        LET rows == Rows(Unwrap(out))
            row == After(SummaryRow(rows), SummaryPrefix)
            present == Present(errs)
        IN  /\ StartsWith(SummaryRow(rows), SummaryPrefix)
            /\ Cardinality(NumberStarts(row)) = Len(present)
            /\ \A k \in 1..Len(present) :
                  /\ EntryCount(Entry(row, k)) = Occurrences(errs, present[k])
                  /\ StartsWith(EntryText(Entry(row, k)), <<" ">> \o SummaryLabel(present[k]))
            /\ SumOfCounts(row, Len(present)) = Len(errs)

\* All three severities occur, one of them twice.
C9_Witness ==
    /\ IsSome(out)
    /\ Len(Present(errs)) = 3
    /\ \E l \in Levels : Occurrences(errs, l) = 2

(* C10: when two or more severities occur, the counts of the summary are   *)
(* separated by ", ": every entry but the last is its number, a space, its *)
(* label, a comma and a space, so that no label runs into the next number. *)
(* CustomErrors_fmt_summary writes no separator, so this fails.            *)
C10_Separated ==
    (IsSome(out) /\ errs # <<>>) =>
        LET rows == Rows(Unwrap(out))
            row == After(SummaryRow(rows), SummaryPrefix)
            present == Present(errs)
        IN  \A k \in 1..(Len(present) - 1) :
                EntryText(Entry(row, k)) = <<" ">> \o SummaryLabel(present[k]) \o <<",", " ">>


---------------------------------------------------------------------------
(* C11: the notice of a rendered CustomErrors.                             *)

Notice == <<"n", "o", " ", "m", "e", "s", "s", "a", "g", "e", "s", "!">>

(* C11: a rendered collection has the row "no messages!" exactly when the  *)
(* collection holds no diagnostic; the render of an empty collection is    *)
(* the line break that opens the summary and the notice, with no row of a  *)
(* diagnostic and no count; a collection of info messages only ends with   *)
(* the count of its info messages and has no notice.                       *)
C11_NoMessages ==
    IsSome(out) =>
        LET rows == Rows(Unwrap(out))
        IN  /\ (\E i \in 1..Len(rows) : rows[i] = Notice) <=> errs = <<>>
            /\ errs = <<>> =>
                  /\ rows = <<<<>>, Notice>>
                  /\ \A i \in 1..Len(rows) : NumberStarts(rows[i]) = {}
            /\ (errs # <<>> /\ \A i \in 1..Len(errs) : errs[i].level = "Info") =>
                  SummaryRow(rows) = SummaryPrefix \o to_string(Len(errs))
                                     \o <<" ">> \o SummaryLabel("Info")

\* A collection of two or more info messages, and nothing else, is rendered.
C11_Witness ==
    /\ IsSome(out)
    /\ Len(errs) >= 2
    /\ \A i \in 1..Len(errs) : errs[i].level = "Info"


---------------------------------------------------------------------------
(* C12: convert on a CustomError and on a CustomErrors.                    *)

\* The From impl a conversion of `self` used, and the impl that undoes it.
UsedInto(self) == IF OfKinds(self) THEN From_E_for_S ELSE From_S_for_E
InverseInto(self) == IF OfKinds(self) THEN From_S_for_E ELSE From_E_for_S

(* C12: a step that converts the collection (it changes the collection     *)
(* and adds nothing to it) keeps the number and the order of the           *)
(* diagnostics; each diagnostic keeps its severity, title, message, help,  *)
(* url, contexts and location and has its kind mapped by the From impl;    *)
(* converting the result with the inverse impl gives back the collection   *)
(* as it was, and each of its diagnostics as it was.                       *)
C12_Convert ==
    [][(errs' # errs /\ given' = given) =>
          /\ Len(errs') = Len(errs)
          /\ \A i \in 1..Len(errs) :
                /\ errs'[i].kind = UsedInto(errs)[errs[i].kind]
                /\ errs'[i].level = errs[i].level
                /\ errs'[i].title = errs[i].title
                /\ errs'[i].message = errs[i].message
                /\ errs'[i].help = errs[i].help
                /\ errs'[i].url = errs[i].url
                /\ errs'[i].context = errs[i].context
                /\ errs'[i].location = errs[i].location
                /\ CustomError_convert(errs'[i], InverseInto(errs)) = errs[i]
          /\ CustomErrors_convert(errs', InverseInto(errs)) = errs]_vars

\* A converted collection of different diagnostics, among them a warning
\* with a title and a diagnostic with every other field set.
C12_Witness ==
    /\ Len(errs) >= 3
    /\ \A i \in 1..Len(errs) : errs[i].kind \in SuperKinds
    /\ \E i \in 1..Len(errs) : errs[i].level = "Warning" /\ IsSome(errs[i].title)
    /\ \E i \in 1..Len(errs) :
          /\ IsSome(errs[i].message) /\ IsSome(errs[i].help) /\ IsSome(errs[i].url)
          /\ IsSome(errs[i].location) /\ errs[i].context # <<>>
    /\ errs[1] # errs[2]


---------------------------------------------------------------------------
(* C13: the contexts of a CustomError.                                     *)

(* C13: after any sequence of calls the context list of the CustomError is *)
(* exactly the sequence of the contexts handed to context and              *)
(* multiple_context, in call order: every call appended, and no call of    *)
(* any builder replaced, removed, reordered or modified an earlier one.    *)
C13_ContextsAppend == err.context = given

\* Two different contexts were attached, and other builders were called.
C13_Witness ==
    /\ Len(given) = 2 /\ given[1] # given[2]
    /\ IsSome(err.title) /\ IsSome(err.location) /\ err.level = "Info"
    /\ err.kind \in SuperKinds


---------------------------------------------------------------------------
(* C14: the location of a CustomError.                                     *)

(* C14 as stated: once a CustomError has a location, no later call changes *)
(* it, a further call of location with another string included.           *)
(* CustomError_location stores whatever it is given, so this fails.        *)
C14_SetOnce ==
    [][IsSome(err.location) => err'.location = err.location]_vars

(* C14: the location of a CustomError changes only by a call of location,  *)
(* which stores the string it is given whether or not a location was set   *)
(* before; title, message, help, url, warning, info, context,              *)
(* multiple_context, convert and the render leave the location as it is.   *)
C14_OnlyLocation ==
    [][err'.location # err.location =>
          \E l \in LocationTexts : err' = CustomError_location(err, l)]_vars

\* The macro set a location, location was called again with another string,
\* and other builders were called after that.
C14_Witness ==
    /\ IsSome(out)
    /\ err.location = Some(<<"b", ".", "r", "s", ":", "1", ":", "1">>)
    /\ IsSome(err.title) /\ IsSome(err.help) /\ err.level = "Warning"
    /\ err.context # <<>>


---------------------------------------------------------------------------
(* C15: the order of a CustomErrors and of its render.                     *)

\* The renders of the diagnostics of self from the k-th on, each render
\* (which ends its last row) followed by a line break: an empty row.
RECURSIVE DiagnosticsText(_, _)
DiagnosticsText(self, k) ==
    IF k > Len(self) THEN <<>>
    ELSE CustomError_fmt(self[k]) \o <<"\n">> \o DiagnosticsText(self, k + 1)

(* C15: after any sequence of push, += and extend the collection holds     *)
(* exactly the diagnostics given, in the order given (a conversion in      *)
(* between changes their kinds only), and iter lists them in that order;   *)
(* the render is the render of each diagnostic in that order, each         *)
(* followed by an empty row, and then the summary: the line break that     *)
(* opens it and the row of the counts or the notice.  A state with a       *)
(* render still holds the diagnostics given, so neither the render nor a   *)
(* query changed the collection.                                           *)
C15_AppendOnly ==
    /\ Len(errs) = Len(given)
    /\ OfKinds(errs) =>
          /\ errs = given
          /\ CustomErrors_iter(errs) = given
    /\ \A i \in 1..Len(errs) : errs[i] = [given[i] EXCEPT !.kind = errs[i].kind]
    /\ IsSome(out) =>
          LET text == Unwrap(out)
              body == DiagnosticsText(errs, 1)
              summary == Rows(SubSeq(text, Len(body) + 1, Len(text)))
          IN  /\ Len(text) >= Len(body)
              /\ SubSeq(text, 1, Len(body)) = body
              /\ \A i \in 1..Len(errs) :
                    LET t == CustomError_fmt(errs[i]) IN t[Len(t)] = "\n"
              /\ Len(summary) = 2
              /\ summary[1] = <<>>
              /\ \/ StartsWith(summary[2], SummaryPrefix)
                 \/ summary[2] = Notice

\* Four diagnostics, the first two different, were added and rendered.
C15_Witness ==
    /\ IsSome(out)
    /\ Len(errs) = 4 /\ OfKinds(errs)
    /\ errs[1] # errs[2] /\ errs[3] # errs[4]
    /\ \E i \in 1..4 : errs[i].context # <<>>


---------------------------------------------------------------------------
(* C16: colour and layout.                                                 *)

\* The rows of the uncoloured render of c: every gutter cell is `w` wide,
\* the numbers right aligned in it.
RECURSIVE PlainUnderlines(_, _, _, _)
PlainUnderlines(c, index, k, w) ==
    IF k > Len(c.highlights) THEN <<>>
    ELSE (IF c.highlights[k].line = index
          THEN << repeat(" ", w) \o <<" ", MiddleDot>> \o UnderlineRest(c.highlights[k]) >>
          ELSE <<>>)
         \o PlainUnderlines(c, index, k + 1, w)

RECURSIVE PlainLines(_, _, _)
PlainLines(c, i, w) ==
    IF i > Len(c.lines) THEN <<>>
    ELSE << FmtRight(to_string(unwrap_or(c.linenumber, 0) + i - 1), w)
            \o <<" ", Vertical, " ">> \o c.lines[i] >>
         \o PlainUnderlines(c, i - 1, 1, w)
         \o PlainLines(c, i + 1, w)

PlainRows(c) ==
    LET w == linenumber_padding(c)
        blank == repeat(" ", w)
    IN  (IF IsSome(c.file)
         THEN << blank \o <<" ">> \o HeaderText(c), blank \o <<" ", Vertical>> >>
         ELSE << blank \o <<" ", HalfDown>> >>)
        \o PlainLines(c, 1, w)
        \o << blank \o <<" ", HalfUp>> >>

(* C16: a render made with colouring disabled holds no colour code, and a  *)
(* render made with colouring enabled is, once its colour codes are        *)
(* removed, row for row the uncoloured render of the same Context: every   *)
(* gutter cell as wide as without colour, the line numbers right aligned.  *)
(* Context_fmt_line pads the number after colouring it, so this fails.     *)
C16_ColourKeepsLayout ==
    IsSome(out) =>
        /\ ~ansi_term => Strip(Unwrap(out)) = Unwrap(out)
        /\ Rows(Unwrap(out)) = PlainRows(ctx)


---------------------------------------------------------------------------
(* The field setters of Highlight, Context and CustomError: SetterSpec.    *)
(* A Highlight, a Context and a CustomError do not depend on one another,  *)
(* so a behaviour calls the setters of one of them, in any order and any   *)
(* number of times, while the other two stay as they were constructed.     *)

HighlightStart == Highlight_new(1, 2, 3)
ContextStart ==
    Context_highlight(Context_lines(SubSeq(SourceLines, 1, 2)), Highlight_from2(<<4, 1>>))
\* From new(), from the macro and then made a warning with a context, and
\* from the macro with a generated url and then made an info.
ErrorStarts ==
    {CustomError_new("NotANumber")}
    \cup {CustomError_context(CustomError_warning(CustomError_macro("CouldNotOpenFile", l)), c) :
            l \in LocationTexts, c \in ContextInputs}
    \cup {CustomError_info(CustomError_macro_doc("NotANumber", l, p, v)) :
            l \in LocationTexts, p \in ModulePaths, v \in Versions}

SetterInit ==
    /\ hl = HighlightStart
    /\ ctx = ContextStart
    /\ err \in ErrorStarts
    /\ errs = CustomErrors_new
    /\ out = None
    /\ ansi_term = FALSE
    /\ given = <<>>

SetNote ==
    /\ ctx = ContextStart /\ err \in ErrorStarts
    /\ \E n \in SetterTexts :
          /\ hl' = Highlight_note(hl, n)
          /\ given' = <<"note", n>>
    /\ UNCHANGED <<ctx, err, errs, out, ansi_term>>

SetHighlightWarning ==
    /\ ctx = ContextStart /\ err \in ErrorStarts
    /\ hl' = Highlight_warning(hl)
    /\ given' = <<"warning">>
    /\ UNCHANGED <<ctx, err, errs, out, ansi_term>>

SetHighlightInfo ==
    /\ ctx = ContextStart /\ err \in ErrorStarts
    /\ hl' = Highlight_info(hl)
    /\ given' = <<"info">>
    /\ UNCHANGED <<ctx, err, errs, out, ansi_term>>

SetLinenumber ==
    /\ hl = HighlightStart /\ err \in ErrorStarts
    /\ \E n \in LineNumbers :
          /\ ctx' = Context_linenumber(ctx, n)
          /\ given' = <<"linenumber", n>>
    /\ UNCHANGED <<hl, err, errs, out, ansi_term>>

SetFile ==
    /\ hl = HighlightStart /\ err \in ErrorStarts
    /\ \E f \in SetterTexts :
          /\ ctx' = Context_file(ctx, f)
          /\ given' = <<"file", f>>
    /\ UNCHANGED <<hl, err, errs, out, ansi_term>>

SetTitle ==
    /\ hl = HighlightStart /\ ctx = ContextStart
    /\ \E t \in SetterTexts :
          /\ err' = CustomError_title(err, t)
          /\ given' = <<"title", t>>
    /\ UNCHANGED <<hl, ctx, errs, out, ansi_term>>

SetMessage ==
    /\ hl = HighlightStart /\ ctx = ContextStart
    /\ \E m \in SetterTexts :
          /\ err' = CustomError_message(err, m)
          /\ given' = <<"message", m>>
    /\ UNCHANGED <<hl, ctx, errs, out, ansi_term>>

SetHelp ==
    /\ hl = HighlightStart /\ ctx = ContextStart
    /\ \E h \in SetterTexts :
          /\ err' = CustomError_help(err, h)
          /\ given' = <<"help", h>>
    /\ UNCHANGED <<hl, ctx, errs, out, ansi_term>>

SetUrl ==
    /\ hl = HighlightStart /\ ctx = ContextStart
    /\ \E u \in SetterTexts :
          /\ err' = CustomError_url(err, u)
          /\ given' = <<"url", u>>
    /\ UNCHANGED <<hl, ctx, errs, out, ansi_term>>

SetDocsLink ==
    /\ hl = HighlightStart /\ ctx = ContextStart
    /\ \E p \in ModulePaths, v \in Versions :
          /\ err' = CustomError_docs_link(err, p, v)
          /\ given' = <<"docs_link", p, v>>
    /\ UNCHANGED <<hl, ctx, errs, out, ansi_term>>

SetterNext ==
    \/ SetNote
    \/ SetHighlightWarning
    \/ SetHighlightInfo
    \/ SetLinenumber
    \/ SetFile
    \/ SetTitle
    \/ SetMessage
    \/ SetHelp
    \/ SetUrl
    \/ SetDocsLink

SetterSpec == SetterInit /\ [][SetterNext]_vars


---------------------------------------------------------------------------
(* C17: what a setter changes.                                             *)

\* The records a and b agree on every field of `fields`.
SameOn(a, b, fields) == \A f \in fields : a[f] = b[f]

ErrorFields == {"kind", "level", "title", "message", "help", "url", "context", "location"}
ContextFields == {"lines", "linenumber", "highlights", "file"}
HighlightFields == {"line", "column", "length", "note", "level"}

\* The url docs_link generates for a diagnostic of a kind of the enum m::E.
GeneratedUrl(self) ==
    <<"h", "t", "t", "p", "s", ":", "/", "/", "d", "o", "c", "s", ".", "r", "s", "/",
      "m", "/", "1", ".", "0", "/", "m", "/", "p", "/",
      "e", "n", "u", "m", ".", "E", ".", "h", "t", "m", "l", "#",
      "v", "a", "r", "i", "a", "n", "t", ".">> \o Debug(self.kind)

(* C17: every call of a setter stores what it is given in its own field,   *)
(* whatever the field held before, and changes no other field: title,      *)
(* message, help and url (and docs_link, which generates the url) on a     *)
(* CustomError leave its kind, severity, contexts, location and other      *)
(* texts as they are; linenumber and file on a Context leave its lines,    *)
(* its highlights and the other of the two as they are; note, warning and  *)
(* info on a Highlight leave its line offset, column and length (and the   *)
(* other of note and severity) as they are.  A setter of one value leaves  *)
(* the other values alone.                                                 *)
C17_Setters ==
    [][LET call == given'[1]
       IN  /\ call \in {"title", "message", "help", "url"} =>
                /\ err'[call] = Some(given'[2])
                /\ SameOn(err', err, ErrorFields \ {call})
                /\ hl' = hl /\ ctx' = ctx
           /\ call = "docs_link" =>
                /\ err'.url = Some(GeneratedUrl(err))
                /\ SameOn(err', err, ErrorFields \ {"url"})
                /\ hl' = hl /\ ctx' = ctx
           /\ call \in {"linenumber", "file"} =>
                /\ ctx'[call] = Some(given'[2])
                /\ SameOn(ctx', ctx, ContextFields \ {call})
                /\ hl' = hl /\ err' = err
           /\ call = "note" =>
                /\ hl'.note = Some(given'[2])
                /\ SameOn(hl', hl, HighlightFields \ {"note"})
                /\ ctx' = ctx /\ err' = err
           /\ call \in {"warning", "info"} =>
                /\ hl'.level = (IF call = "warning" THEN "Warning" ELSE "Info")
                /\ SameOn(hl', hl, HighlightFields \ {"level"})
                /\ ctx' = ctx /\ err' = err]_vars

\* url was called on the info made by the macro, which had a generated url
\* (no other start is an info): the url given replaced it, and the severity,
\* the location and the title set before are still there.
C17_Witness ==
    /\ given = <<"url", <<"t", "w", "o">> >>
    /\ err.url = Some(<<"t", "w", "o">>)
    /\ err.level = "Info" /\ IsSome(err.location)
    /\ err.title = Some(<<"o", "n", "e">>)


---------------------------------------------------------------------------
(* C18: the severity of a CustomError.                                     *)

\* How many of is_error(), is_warning() and is_info() are true.
QueriesTrue(self) ==
    (IF is_error(self) THEN 1 ELSE 0) + (IF is_warning(self) THEN 1 ELSE 0)
    + (IF is_info(self) THEN 1 ELSE 0)

(* C18: a CustomError starts with is_error() true and the two other        *)
(* queries false; after every call exactly one of the three queries is     *)
(* true: is_warning() after a call of warning(), is_info() after a call of *)
(* info(), and the one that was true before after any other builder,      *)
(* convert or render; so the most recent of warning() and info() decides,  *)
(* and a CustomError that is no error never is an error again.             *)
C18_Severity ==
    /\ is_error(err) /\ QueriesTrue(err) = 1
    /\ [][/\ QueriesTrue(err') = 1
          /\ CallWarning => is_warning(err')
          /\ CallInfo => is_info(err')
          /\ ~(CallWarning \/ CallInfo) => err'.level = err.level
          /\ ~is_error(err) => ~is_error(err')]_vars

\* An info with a title, a location and a context, converted and rendered.
C18_Witness ==
    /\ IsSome(out)
    /\ is_info(err) /\ ~is_error(err) /\ ~is_warning(err)
    /\ IsSome(err.title) /\ IsSome(err.location) /\ err.context # <<>>
    /\ err.kind \in SuperKinds

===========================================================================
